---- MODULE Spec2Model ----
(***************************************************************************)
(* SimpleShell (Smoothie): the console command dispatcher, its filesystem  *)
(* handlers, the deferred-reset countdown and the heap walk, as a state    *)
(* machine.  C++ strings are TLA+ strings; a character is a string of      *)
(* length one.  A handler is an operator that yields the set of effects    *)
(* it can have (more than one where an external collaborator decides).     *)
(***************************************************************************)
EXTENDS Integers, Sequences, FiniteSets, TLC

VARIABLES
    current_path,      \* SimpleShell::current_path
    reset_delay_secs,  \* SimpleShell::reset_delay_secs
    files,             \* the paths fopen()/remove() find on the storage
    dirs,              \* the directories opendir() finds on the storage
    event,             \* the event the last step delivered to the module
    invoked,           \* the table handlers the last step invoked, in order
    passed,            \* the parameters each of them was passed
    ret,               \* what parse_command returned in the last step
    out,               \* what the last step wrote to its output stream
    calls,             \* the collaborator calls the last step made, in order
    open_handles,      \* the paths of the DIR and FILE handles still open
    armed,             \* a reset command has been handled
    ticks_since,       \* periodic ticks since the last reset command
    fired_since,       \* system_reset(false) calls since the last reset command
    heap,              \* the allocator's chunks as heapWalk finds them
    walk               \* heapWalk's locals while the loop runs

vars == <<current_path, reset_delay_secs, files, dirs, event, invoked, passed,
          ret, out, calls, open_handles, armed, ticks_since, fired_since,
          heap, walk>>

shell_vars == <<current_path, reset_delay_secs, files, dirs, event, invoked,
                passed, ret, out, calls, open_handles, armed, ticks_since,
                fired_since>>

-----------------------------------------------------------------------------
(* Bounds of the model. *)

\* ticks counted after a reset command (the count saturates here)
MaxTicks == 7
\* chunks in a heap the walk is checked on
MaxChunks == 3
\* passes of heapWalk's loop followed on a heap it never leaves: more than
\* any heap of MaxChunks chunks takes when the walk does leave it
MaxPasses == MaxChunks + 3

-----------------------------------------------------------------------------
(* Characters and strings. *)

\* what s[s.size()] reads: the terminating NUL of a std::string
NUL == "\\0"

\* C++ s[i], i counted from 0
CharAt(s, i) == IF i < Len(s) THEN SubSeq(s, i + 1, i + 1) ELSE NUL

Min(S) == CHOOSE m \in S : \A n \in S : m <= n

\* positions (from 1) of the characters of s that are in cs
Positions(s, cs) == {i \in 1..Len(s) : SubSeq(s, i, i) \in cs}

\* s.substr(0, s.find_first_of(cs)): all of s when none is found (npos)
UpToFirstOf(s, cs) ==
    IF Positions(s, cs) = {} THEN s
    ELSE SubSeq(s, 1, Min(Positions(s, cs)) - 1)

\* the characters after the first one of cs; "" when none is found
AfterFirstOf(s, cs) ==
    IF Positions(s, cs) = {} THEN ""
    ELSE SubSeq(s, Min(Positions(s, cs)) + 1, Len(s))

\* the printable ASCII characters in code order, from 32; the three that a
\* TLA+ string cannot hold are left blank
Ascii == " ! #$%&'()*+,-./0123456789:;<=>?@ABCDEFGHIJKLMNOPQRSTUVWXYZ[ ]^_ abcdefghijklmnopqrstuvwxyz{|}~"

\* the code of each character (of the first of its places in Ascii)
CodeTable ==
    [c \in {SubSeq(Ascii, i, i) : i \in 1..Len(Ascii)} |->
        31 + Min(Positions(Ascii, {c}))]

Code(c) == CodeTable[c]

Digits == <<"0", "1", "2", "3", "4", "5", "6", "7", "8", "9">>

IsDigit(c) == \E d \in 1..10 : Digits[d] = c

DigitVal(c) == (CHOOSE d \in 1..10 : Digits[d] = c) - 1

\* get_arguments (libs/utils): the text after the first space of the line
get_arguments(possible_command) == AfterFirstOf(possible_command, {" "})

\* shift_parameter (libs/utils): the next space-delimited token, and what
\* is left of the parameters once it is taken
shift_parameter(parameters) ==
    [token |-> UpToFirstOf(parameters, {" "}),
     rest  |-> AfterFirstOf(parameters, {" "})]

\* get_checksum (libs/utils): the fixed-width hash of a keyword, a
\* position-sensitive sum of its character codes kept in an unsigned short
RECURSIVE Fletcher(_, _, _, _)
Fletcher(s, i, sum1, sum2) ==
    IF i > Len(s) THEN (sum2 * 256 + sum1) % 65536
    ELSE LET s1 == (sum1 + Code(SubSeq(s, i, i))) % 255
         IN  Fletcher(s, i + 1, s1, (sum2 + s1) % 255)

get_checksum(to_check) == Fletcher(to_check, 1, 0, 0)

CHECKSUM(keyword) == get_checksum(keyword)

\* lc (libs/utils): upper-case letters to lower case, the rest unchanged
LcChar(c) ==
    IF c \in {SubSeq(Ascii, k, k) : k \in 34..59}
    THEN SubSeq(Ascii, Code(c) + 1, Code(c) + 1)
    ELSE c

RECURSIVE lc(_)
lc(s) == IF s = "" THEN "" ELSE LcChar(SubSeq(s, 1, 1)) \o lc(SubSeq(s, 2, Len(s)))

\* strtol(s, &e, 10): optional sign, then the longest run of digits.  used
\* is how far e is past the start of s: 0 when no digit was converted.
RECURSIVE DigitRun(_, _, _)
DigitRun(s, i, acc) ==
    IF i <= Len(s) /\ IsDigit(SubSeq(s, i, i))
    THEN DigitRun(s, i + 1, acc * 10 + DigitVal(SubSeq(s, i, i)))
    ELSE [val |-> acc, next |-> i]

strtol(s) ==
    LET signed == Len(s) >= 1 /\ SubSeq(s, 1, 1) \in {"+", "-"}
        first  == IF signed THEN 2 ELSE 1
        run    == DigitRun(s, first, 0)
    IN  IF run.next = first THEN [val |-> 0, used |-> 0]
        ELSE [val  |-> IF signed /\ SubSeq(s, 1, 1) = "-" THEN 0 - run.val ELSE run.val,
              used |-> run.next - 1]

\* s repeated n times
RECURSIVE Rep(_, _)
Rep(s, n) ==
    IF n = 0 THEN ""
    ELSE IF n % 2 = 0 THEN LET half == Rep(s, n \div 2) IN half \o half
    ELSE s \o Rep(s, n - 1)

-----------------------------------------------------------------------------
(* Program constants. *)

\* cat flushes once more than this many bytes are counted
LineMax == 80
\* seconds the reset command arms the countdown with
ResetSecs == 5

-----------------------------------------------------------------------------
(* The storage the filesystem collaborator serves. *)

\* bytes of the file that is one long line
LongLen == 200
\* bytes of each line of the file of three wide lines
WideLen == 30

PathOf(e) == e.dir \o "/" \o e.name

\* the directories, each under its parent ("" is the root)
DirTable == <<[dir |-> "", name |-> "a"], [dir |-> "", name |-> "sd"]>>

Dirs == {""} \cup {PathOf(DirTable[i]) : i \in 1..Len(DirTable)}

\* the directories of a board that was started with no card in its slot
DirsNoCard == Dirs \ {"/sd"}

FileTable ==
    <<[dir |-> "/sd", name |-> "F.G",  content |-> "G1\nG2\nG3\n"],
      [dir |-> "/sd", name |-> "LONG", content |-> Rep("x", LongLen)],
      [dir |-> "/sd", name |-> "TAIL", content |-> "ab\ncd"],
      [dir |-> "/sd", name |-> "NL",   content |-> "\nab\n"],
      [dir |-> "/a",  name |-> "WIDE",
       content |-> Rep(Rep("w", WideLen) \o "\n", 3)]>>

AllFiles == {PathOf(FileTable[i]) : i \in 1..Len(FileTable)}

\* the files of FileTable that are in one of the directories ds
FilesIn(ds) ==
    {PathOf(FileTable[i]) : i \in {j \in 1..Len(FileTable) : FileTable[j].dir \in ds}}

ContentOf(path) ==
    FileTable[CHOOSE i \in 1..Len(FileTable) : PathOf(FileTable[i]) = path].content

\* a directory path with one trailing separator dropped
DirKey(path) ==
    IF path # "" /\ SubSeq(path, Len(path), Len(path)) = "/"
    THEN SubSeq(path, 1, Len(path) - 1)
    ELSE path

\* whether opendir(path) yields a handle
opendir(path) == path # "" /\ DirKey(path) \in dirs

\* the names readdir yields for an open directory, in order
readdir(path) ==
    LET here(e) == e.dir = DirKey(path) /\ PathOf(e) \in dirs
        subdirs == SelectSeq(DirTable, here)
        present(e) == e.dir = DirKey(path) /\ PathOf(e) \in files
        found   == SelectSeq(FileTable, present)
    IN  [i \in 1..Len(subdirs) |-> subdirs[i].name]
        \o [i \in 1..Len(found) |-> found[i].name]

\* whether fopen(path, "r") yields a handle
fopen(path) == path \in files

-----------------------------------------------------------------------------
(* What a handler does: the session fields and storage it leaves, what it  *)
(* writes to the stream, and the collaborator calls it makes.              *)

\* a write to the stream: the format, its string arguments and its
\* unsigned arguments, each in order
PrintfN(fmt, args, nums) == [fmt |-> fmt, args |-> args, nums |-> nums]

Printf(fmt, args) == PrintfN(fmt, args, <<>>)

Call(op, arg, ok) == [op |-> op, arg |-> arg, ok |-> ok]

Same == [cp    |-> current_path,
         rds   |-> reset_delay_secs,
         files |-> files,
         out   |-> <<>>,
         calls |-> <<>>]

absolute_from_relative_dot_only(path) ==
    IF CharAt(path, 0) = "/" THEN path
    ELSE IF path = "." THEN current_path
    ELSE current_path \o path

absolute_from_relative(path) ==
    IF CharAt(path, 0) = "/" THEN path
    ELSE IF CharAt(path, 0) = "." THEN current_path
    ELSE current_path \o path

ls_command_enters(parameters) ==
    LET folder == absolute_from_relative(parameters)
        names  == readdir(folder)
    IN  IF opendir(folder)
        THEN {[Same EXCEPT
                 !.cp = folder,
                 !.out = [i \in 1..Len(names) |-> Printf("%s\r\n", <<lc(names[i])>>)],
                 !.calls = <<Call("opendir", folder, TRUE),
                             Call("closedir", folder, TRUE)>>]}
        ELSE {[Same EXCEPT
                 !.out = <<Printf("Could not open directory %s \r\n", <<folder>>)>>,
                 !.calls = <<Call("opendir", folder, FALSE)>>]}

ls_command(parameters) ==
    LET folder == absolute_from_relative(parameters)
        names  == readdir(folder)
    IN  IF opendir(folder)
        THEN {[Same EXCEPT
                 !.out = [i \in 1..Len(names) |-> Printf("%s\r\n", <<lc(names[i])>>)],
                 !.calls = <<Call("opendir", folder, TRUE),
                             Call("closedir", folder, TRUE)>>]}
        ELSE {[Same EXCEPT
                 !.out = <<Printf("Could not open directory %s \r\n", <<folder>>)>>,
                 !.calls = <<Call("opendir", folder, FALSE)>>]}

\* what the freed buffer of the temporary string reads as when its bytes
\* have been overwritten
freed_buffer == "<freed>"

rm_command(parameters) ==
    LET resolved == absolute_from_relative(shift_parameter(parameters).token)
    IN  {IF fn \in files
         THEN [Same EXCEPT !.files = files \ {fn},
                           !.calls = <<Call("remove", fn, TRUE)>>]
         ELSE [Same EXCEPT !.out = <<Printf("Could not delete %s \r\n", <<fn>>)>>,
                           !.calls = <<Call("remove", fn, FALSE)>>]
         : fn \in {resolved, freed_buffer}}

cd_command_partial(parameters) ==
    LET resolved == absolute_from_relative(parameters)
        folder   == IF CharAt(resolved, Len(resolved) - 1) # "/"
                    THEN resolved \o "/" ELSE resolved
    IN  IF ~opendir(folder)
        THEN {[Same EXCEPT
                 !.cp = folder,
                 !.out = <<Printf("Could not open directory %s \r\n", <<folder>>)>>,
                 !.calls = <<Call("opendir", folder, FALSE)>>]}
        ELSE {[Same EXCEPT
                 !.cp = folder,
                 !.calls = <<Call("opendir", folder, TRUE),
                             Call("closedir", folder, TRUE)>>]}

cd_command_no_slash(parameters) ==
    LET folder == absolute_from_relative(parameters)
    IN  IF ~opendir(folder)
        THEN {[Same EXCEPT
                 !.out = <<Printf("Could not open directory %s \r\n", <<folder>>)>>,
                 !.calls = <<Call("opendir", folder, FALSE)>>]}
        ELSE {[Same EXCEPT
                 !.cp = folder,
                 !.calls = <<Call("opendir", folder, TRUE),
                             Call("closedir", folder, TRUE)>>]}

cd_command(parameters) ==
    LET resolved == absolute_from_relative(parameters)
        folder   == IF CharAt(resolved, Len(resolved) - 1) # "/"
                    THEN resolved \o "/" ELSE resolved
    IN  IF ~opendir(folder)
        THEN {[Same EXCEPT
                 !.out = <<Printf("Could not open directory %s \r\n", <<folder>>)>>,
                 !.calls = <<Call("opendir", folder, FALSE)>>]}
        ELSE {[Same EXCEPT
                 !.cp = folder,
                 !.calls = <<Call("opendir", folder, TRUE),
                             Call("closedir", folder, TRUE)>>]}

pwd_command(parameters) ==
    {[Same EXCEPT !.out = <<Printf("%s\r\n", <<current_path>>)>>]}

\* cat_command's locals before its loop
cat_start ==
    [buffer |-> "", newlines |-> 0, linecnt |-> 0, written |-> <<>>,
     broke |-> FALSE]

\* one pass through the body of cat_command's loop, on byte c of the file
cat_byte(st, c, limit) ==
    LET buf       == st.buffer \o c
        counted   == IF c = "\n" THEN st.linecnt ELSE st.linecnt + 1
        flush     == c = "\n" \/ counted > LineMax
        newlines2 == IF flush THEN st.newlines + 1 ELSE st.newlines
    IN  [buffer   |-> IF flush THEN "" ELSE buf,
         newlines |-> newlines2,
         linecnt  |-> IF flush /\ counted > LineMax THEN 0 ELSE counted,
         written  |-> IF flush THEN Append(st.written, Printf("%s", <<buf>>))
                      ELSE st.written,
         broke    |-> newlines2 = limit]

\* the while loop of cat_command over bytes lo..hi of the file, in order,
\* until the break
RECURSIVE cat_loop(_, _, _, _, _)
cat_loop(st, content, lo, hi, limit) ==
    IF st.broke \/ lo > hi THEN st
    ELSE IF lo = hi THEN cat_byte(st, SubSeq(content, lo, lo), limit)
    ELSE LET mid == (lo + hi) \div 2
         IN  cat_loop(cat_loop(st, content, lo, mid, limit),
                      content, mid + 1, hi, limit)

cat_command_leaks_on_break(parameters) ==
    LET first    == shift_parameter(parameters)
        filename == absolute_from_relative(first.token)
        limit_paramater == shift_parameter(first.rest).token
        parsed   == strtol(limit_paramater)
        limit    == IF limit_paramater # "" /\ parsed.used > 0
                    THEN parsed.val ELSE 0 - 1
        last     == cat_loop(cat_start, ContentOf(filename), 1,
                             Len(ContentOf(filename)), limit)
    IN  IF ~fopen(filename)
        THEN {[Same EXCEPT
                 !.out = <<Printf("File not found: %s\r\n", <<filename>>)>>,
                 !.calls = <<Call("fopen", filename, FALSE)>>]}
        ELSE {[Same EXCEPT
                 !.out = last.written,
                 !.calls = IF last.broke
                           THEN <<Call("fopen", filename, TRUE)>>
                           ELSE <<Call("fopen", filename, TRUE),
                                  Call("fclose", filename, TRUE)>>]}

cat_command(parameters) ==
    LET first    == shift_parameter(parameters)
        filename == absolute_from_relative(first.token)
        limit_paramater == shift_parameter(first.rest).token
        parsed   == strtol(limit_paramater)
        limit    == IF limit_paramater # "" /\ parsed.used > 0
                    THEN parsed.val ELSE 0 - 1
    IN  IF ~fopen(filename)
        THEN {[Same EXCEPT
                 !.out = <<Printf("File not found: %s\r\n", <<filename>>)>>,
                 !.calls = <<Call("fopen", filename, FALSE)>>]}
        ELSE {[Same EXCEPT
                 !.out = cat_loop(cat_start, ContentOf(filename), 1,
                                  Len(ContentOf(filename)), limit).written,
                 !.calls = <<Call("fopen", filename, TRUE),
                             Call("fclose", filename, TRUE)>>]}

reset_command_short(parameters) ==
    {[Same EXCEPT
        !.out = <<Printf("Smoothie out. Peace. Rebooting in 5 seconds...\r\n", <<>>)>>,
        !.rds = ResetSecs - 1]}

reset_command(parameters) ==
    {[Same EXCEPT
        !.out = <<Printf("Smoothie out. Peace. Rebooting in 5 seconds...\r\n", <<>>)>>,
        !.rds = ResetSecs]}

dfu_command(parameters) ==
    {[Same EXCEPT !.out = <<Printf("Entering boot mode...\r\n", <<>>)>>,
                  !.calls = <<Call("system_reset", "true", TRUE)>>]}

break_command(parameters) ==
    {[Same EXCEPT !.out = <<Printf("Entering MRI debug mode...\r\n", <<>>)>>,
                  !.calls = <<Call("__debugbreak", "", TRUE)>>]}

help_command(parameters) ==
    {[Same EXCEPT !.out =
        <<Printf("Commands:\r\n", <<>>),
          Printf("version\r\n", <<>>),
          Printf("mem [-v]\r\n", <<>>),
          Printf("ls [folder]\r\n", <<>>),
          Printf("cd folder\r\n", <<>>),
          Printf("pwd\r\n", <<>>),
          Printf("cat file [limit]\r\n", <<>>),
          Printf("rm file\r\n", <<>>),
          Printf("play file [-v]\r\n", <<>>),
          Printf("progress - shows progress of current play\r\n", <<>>),
          Printf("abort - abort currently playing file\r\n", <<>>),
          Printf("reset - reset smoothie\r\n", <<>>),
          Printf("dfu - enter dfu boot loader\r\n", <<>>),
          Printf("break - break into debugger\r\n", <<>>),
          Printf("config-get [<configuration_source>] <configuration_setting>\r\n", <<>>),
          Printf("config-set [<configuration_source>] <configuration_setting> <value>\r\n", <<>>),
          Printf("config-load [<file_name>]\r\n", <<>>),
          Printf("get temp [bed|hotend]\r\n", <<>>),
          Printf("set_temp bed|hotend 185\r\n", <<>>),
          Printf("get pos\r\n", <<>>)>>]}

\* bit 0x00100000 of the device type decides the name printed
version_command(parameters) ==
    {[Same EXCEPT
        !.out = <<Printf("Build version: %s, Build date: %s, MCU: %s, System Clock: %ldMHz\r\n",
                         <<"get_build", "get_build_date", mcu, "SystemCoreClock">>)>>,
        !.calls = <<Call("getDeviceType", "", TRUE)>>]
     : mcu \in {"LPC1769", "LPC1768"}}

get_command(parameters) ==
    LET first == shift_parameter(parameters)
        what  == get_checksum(first.token)
        type  == shift_parameter(first.rest).token
    IN  IF what = CHECKSUM("temp")
        THEN {[Same EXCEPT
                 !.out = <<Printf("%s temp: %f/%f @%d\r\n",
                                  <<type, "current_temperature",
                                    "target_temperature", "pwm">>)>>,
                 !.calls = <<Call("get_value", type, TRUE)>>],
              [Same EXCEPT
                 !.out = <<Printf("%s is not a known temperature device\r\n", <<type>>)>>,
                 !.calls = <<Call("get_value", type, FALSE)>>]}
        ELSE IF what = CHECKSUM("pos")
        THEN {[Same EXCEPT
                 !.out = <<Printf("Position X: %f, Y: %f, Z: %f\r\n",
                                  <<"pos[0]", "pos[1]", "pos[2]">>)>>,
                 !.calls = <<Call("get_value", "pos", TRUE)>>],
              [Same EXCEPT
                 !.out = <<Printf("get pos command failed\r\n", <<>>)>>,
                 !.calls = <<Call("get_value", "pos", FALSE)>>]}
        ELSE {Same}

\* t is 0.0 for a missing value and strtod's reading of the text otherwise
set_temp_command(parameters) ==
    LET first == shift_parameter(parameters)
        type  == first.token
        temp  == shift_parameter(first.rest).token
        t     == IF temp = "" THEN "0.0" ELSE "strtod " \o temp
    IN  {[Same EXCEPT
            !.out = <<Printf("%s temp set to: %3.1f\r\n", <<type, t>>)>>,
            !.calls = <<Call("set_value", type, TRUE)>>],
         [Same EXCEPT
            !.out = <<Printf("%s is not a known temperature device\r\n", <<type>>)>>,
            !.calls = <<Call("set_value", type, FALSE)>>]}

test_command(parameters) == {Same}

-----------------------------------------------------------------------------
(* The heap newlib-nano keeps, as heapWalk reads it.  A uint32_t is a pair *)
(* <<high half, low half>> of 16-bit halves, so that sums and differences  *)
(* wrap at 2^32 as they do on the device.                                  *)

Half == 2 ^ 16

\* the uint32_t that holds n (n taken modulo 2^32)
U32(n) == <<(n \div Half) % Half, n % Half>>

Add32(a, b) ==
    LET lo == a[2] + b[2]
    IN  <<(a[1] + b[1] + lo \div Half) % Half, lo % Half>>

Sub32(a, b) ==
    LET lo == a[2] - b[2]
        borrow == IF lo < 0 THEN 1 ELSE 0
    IN  <<(a[1] - b[1] - borrow + Half) % Half, (lo + Half) % Half>>

Lt32(a, b) == a[1] < b[1] \/ (a[1] = b[1] /\ a[2] < b[2])

\* x & ~7
ClearLow3(a) == <<a[1], a[2] - (a[2] % 8)>>

\* &__end__: where the heap begins (0x10000400)
HeapStart == 4096 * Half + 1024

\* the ceiling the unused heap is measured against
g_maximumHeapAddress == HeapStart + 2 ^ 14

\* the size headers a chunk of the modelled heaps can carry; 0 is a header
\* that was overwritten
ChunkSizes == {0, 4, 8, 16}

\* the bytes a chunk takes up: what its header says, or the least a chunk
\* takes when the header was overwritten with 0
Extent(c) == IF c.size = 0 THEN 8 ELSE c.size

\* a free chunk holds its size and the link to the next free chunk
ChunkKinds ==
    {k \in [size : ChunkSizes, free : BOOLEAN] : k.free => k.size >= 8}

RECURSIVE SumSizes(_, _)
SumSizes(chunks, n) ==
    IF n = 0 THEN 0 ELSE Extent(chunks[n]) + SumSizes(chunks, n - 1)

ChunkAddr(h, i) == HeapStart + SumSizes(h.chunks, i - 1)

\* _sbrk(0): the current top of the heap
sbrk0(h) == HeapStart + SumSizes(h.chunks, Len(h.chunks))

FreeIndexes(h) == {i \in 1..Len(h.chunks) : h.chunks[i].free}

\* the address the free list links chunk i to (0 ends the list)
NextFree(h, i) ==
    LET later == IF h.order = "ascending"
                 THEN {j \in FreeIndexes(h) : j > i}
                 ELSE {j \in FreeIndexes(h) : j < i}
        pick  == IF h.order = "ascending"
                 THEN CHOOSE j \in later : \A k \in later : j <= k
                 ELSE CHOOSE j \in later : \A k \in later : j >= k
    IN  IF later = {} THEN 0 ELSE ChunkAddr(h, pick)

\* __malloc_free_list: the head of the free list
malloc_free_list(h) ==
    IF h.order = "ascending" THEN NextFree(h, 0)
    ELSE NextFree(h, Len(h.chunks) + 1)

\* *(uint32_t *)addr
Word(h, addr) ==
    IF \E i \in 1..Len(h.chunks) : U32(ChunkAddr(h, i)) = addr
    THEN U32(h.chunks[CHOOSE i \in 1..Len(h.chunks) :
                         U32(ChunkAddr(h, i)) = addr].size)
    ELSE IF \E i \in FreeIndexes(h) : U32(ChunkAddr(h, i) + 4) = addr
    THEN U32(NextFree(h, CHOOSE i \in FreeIndexes(h) :
                            U32(ChunkAddr(h, i) + 4) = addr))
    ELSE U32(0)

\* heapWalk's locals before its loop, the top line written
walk_start(h, verbose) ==
    [pc          |-> "loop",
     verbose     |-> verbose,
     chunkNumber |-> U32(1),
     chunkCurr   |-> U32(HeapStart),
     freeCurr    |-> U32(malloc_free_list(h)),
     heapEnd     |-> U32(sbrk0(h)),
     freeSize    |-> U32(0),
     usedSize    |-> U32(0),
     top         |-> Sub32(U32(sbrk0(h)), U32(HeapStart)),
     visited     |-> <<>>,
     out         |-> <<PrintfN("Used Heap Size: %lu\n", <<>>,
                               <<Sub32(U32(sbrk0(h)), U32(HeapStart))>>)>>]

walk_iter_header_only(h, w) ==
    LET chunkSize   == Word(h, w.chunkCurr)
        chunkNext   == Add32(w.chunkCurr, chunkSize)
        isChunkFree == w.chunkCurr = w.freeCurr
        aligned     == ClearLow3(Add32(Add32(w.chunkCurr, U32(4)), U32(7)))
        reported    == Sub32(chunkSize, U32(4))
    IN  [w EXCEPT
           !.freeCurr = IF isChunkFree THEN Word(h, Add32(w.freeCurr, U32(4))) ELSE @,
           !.freeSize = IF isChunkFree THEN Add32(@, reported) ELSE @,
           !.usedSize = IF isChunkFree THEN @ ELSE Add32(@, reported),
           !.chunkCurr = chunkNext,
           !.chunkNumber = Add32(@, U32(1)),
           !.visited = Append(@, [addr |-> w.chunkCurr, raw |-> chunkSize,
                                  free |-> isChunkFree]),
           !.out = IF w.verbose
                   THEN Append(@, PrintfN("  Chunk: %lu  Address: 0x%08lX  Size: %lu  %s\n",
                                  <<IF isChunkFree THEN "CHUNK FREE" ELSE "">>,
                                  <<w.chunkNumber, aligned, reported>>))
                   ELSE @]

walk_iter_next_after_adjust(h, w) ==
    LET chunkSize   == Word(h, w.chunkCurr)
        isChunkFree == w.chunkCurr = w.freeCurr
        aligned     == ClearLow3(Add32(Add32(w.chunkCurr, U32(4)), U32(7)))
        chunkNext   == Add32(aligned, chunkSize)
        reported    == Sub32(chunkSize, U32(8))
    IN  [w EXCEPT
           !.freeCurr = IF isChunkFree THEN Word(h, Add32(w.freeCurr, U32(4))) ELSE @,
           !.freeSize = IF isChunkFree THEN Add32(@, reported) ELSE @,
           !.usedSize = IF isChunkFree THEN @ ELSE Add32(@, reported),
           !.chunkCurr = chunkNext,
           !.chunkNumber = Add32(@, U32(1)),
           !.visited = Append(@, [addr |-> w.chunkCurr, raw |-> chunkSize,
                                  free |-> isChunkFree]),
           !.out = IF w.verbose
                   THEN Append(@, PrintfN("  Chunk: %lu  Address: 0x%08lX  Size: %lu  %s\n",
                                  <<IF isChunkFree THEN "CHUNK FREE" ELSE "">>,
                                  <<w.chunkNumber, aligned, reported>>))
                   ELSE @]

walk_iter_no_advance(h, w) ==
    LET chunkSize   == Word(h, w.chunkCurr)
        isChunkFree == w.chunkCurr = w.freeCurr
        aligned     == ClearLow3(Add32(Add32(w.chunkCurr, U32(4)), U32(7)))
        reported    == Sub32(chunkSize, U32(8))
    IN  [w EXCEPT
           !.freeCurr = IF isChunkFree THEN Word(h, Add32(w.freeCurr, U32(4))) ELSE @,
           !.freeSize = IF isChunkFree THEN Add32(@, reported) ELSE @,
           !.usedSize = IF isChunkFree THEN @ ELSE Add32(@, reported),
           !.chunkNumber = Add32(@, U32(1)),
           !.visited = Append(@, [addr |-> w.chunkCurr, raw |-> chunkSize,
                                  free |-> isChunkFree]),
           !.out = IF w.verbose
                   THEN Append(@, PrintfN("  Chunk: %lu  Address: 0x%08lX  Size: %lu  %s\n",
                                  <<IF isChunkFree THEN "CHUNK FREE" ELSE "">>,
                                  <<w.chunkNumber, aligned, reported>>))
                   ELSE @]

\* one pass through the body of heapWalk's loop
walk_iter(h, w) ==
    LET chunkSize   == Word(h, w.chunkCurr)
        chunkNext   == Add32(w.chunkCurr, chunkSize)
        isChunkFree == w.chunkCurr = w.freeCurr
        aligned     == ClearLow3(Add32(Add32(w.chunkCurr, U32(4)), U32(7)))
        reported    == Sub32(chunkSize, U32(8))
    IN  [w EXCEPT
           !.freeCurr = IF isChunkFree THEN Word(h, Add32(w.freeCurr, U32(4))) ELSE @,
           !.freeSize = IF isChunkFree THEN Add32(@, reported) ELSE @,
           !.usedSize = IF isChunkFree THEN @ ELSE Add32(@, reported),
           !.chunkCurr = chunkNext,
           !.chunkNumber = Add32(@, U32(1)),
           !.visited = Append(@, [addr |-> w.chunkCurr, raw |-> chunkSize,
                                  free |-> isChunkFree]),
           !.out = IF w.verbose
                   THEN Append(@, PrintfN("  Chunk: %lu  Address: 0x%08lX  Size: %lu  %s\n",
                                  <<IF isChunkFree THEN "CHUNK FREE" ELSE "">>,
                                  <<w.chunkNumber, aligned, reported>>))
                   ELSE @]

\* the line written once the loop has ended
walk_end(w) ==
    [w EXCEPT !.pc = "done",
              !.out = Append(@, PrintfN("Allocated: %lu, Free: %lu\r\n", <<>>,
                                        <<w.usedSize, w.freeSize>>))]

RECURSIVE walk_run(_, _)
walk_run(h, w) ==
    IF Lt32(w.chunkCurr, w.heapEnd) THEN walk_run(h, walk_iter(h, w))
    ELSE walk_end(w)

\* heapWalk(stream, verbose) on heap h: its locals at return
heapWalk(h, verbose) == walk_run(h, walk_start(h, verbose))

mem_command(parameters) ==
    LET verbose == Positions(shift_parameter(parameters).token, {"V", "v"}) # {}
        m       == Sub32(U32(g_maximumHeapAddress), U32(sbrk0(heap)))
    IN  {[Same EXCEPT
            !.out = <<PrintfN("Unused Heap: %lu bytes\r\n", <<>>, <<m>>)>>
                    \o heapWalk(heap, verbose).out]}

\* the locals of heapWalk when it is not running
WalkIdle ==
    [pc |-> "idle", verbose |-> FALSE, chunkNumber |-> U32(0),
     chunkCurr |-> U32(0), freeCurr |-> U32(0), heapEnd |-> U32(0),
     freeSize |-> U32(0), usedSize |-> U32(0), top |-> U32(0),
     visited |-> <<>>, out |-> <<>>]

Chunk(size, free) == [size |-> size, free |-> free]

\* the heaps the walk is checked on: up to MaxChunks chunks, the free list
\* in ascending address order or (two free chunks or more) in descending
AllHeaps ==
    {h \in [chunks : UNION {[1..n -> ChunkKinds] : n \in 0..MaxChunks},
            order  : {"ascending", "descending"}] :
        h.order = "descending" => Cardinality(FreeIndexes(h)) >= 2}

\* the heap the console's mem command finds
SampleHeaps ==
    {[chunks |-> <<Chunk(16, FALSE), Chunk(8, TRUE), Chunk(16, FALSE), Chunk(16, TRUE)>>,
      order  |-> "ascending"]}

-----------------------------------------------------------------------------
(* The command table and the dispatcher. *)

NULL == "NULL"

commands_table ==
    <<[command_cs |-> CHECKSUM("ls"),       pfunc |-> "ls_command"],
      [command_cs |-> CHECKSUM("cd"),       pfunc |-> "cd_command"],
      [command_cs |-> CHECKSUM("pwd"),      pfunc |-> "pwd_command"],
      [command_cs |-> CHECKSUM("cat"),      pfunc |-> "cat_command"],
      [command_cs |-> CHECKSUM("rm"),       pfunc |-> "rm_command"],
      [command_cs |-> CHECKSUM("reset"),    pfunc |-> "reset_command"],
      [command_cs |-> CHECKSUM("dfu"),      pfunc |-> "dfu_command"],
      [command_cs |-> CHECKSUM("break"),    pfunc |-> "break_command"],
      [command_cs |-> CHECKSUM("help"),     pfunc |-> "help_command"],
      [command_cs |-> CHECKSUM("version"),  pfunc |-> "version_command"],
      [command_cs |-> CHECKSUM("mem"),      pfunc |-> "mem_command"],
      [command_cs |-> CHECKSUM("get"),      pfunc |-> "get_command"],
      [command_cs |-> CHECKSUM("set_temp"), pfunc |-> "set_temp_command"],
      [command_cs |-> CHECKSUM("test"),     pfunc |-> "test_command"],
      [command_cs |-> 0,                    pfunc |-> NULL]>>

\* (this->*fnc)(args, stream)
CallHandler(fnc, args) ==
    CASE fnc = "ls_command"       -> ls_command(args)
      [] fnc = "cd_command"       -> cd_command(args)
      [] fnc = "pwd_command"      -> pwd_command(args)
      [] fnc = "cat_command"      -> cat_command(args)
      [] fnc = "rm_command"       -> rm_command(args)
      [] fnc = "reset_command"    -> reset_command(args)
      [] fnc = "dfu_command"      -> dfu_command(args)
      [] fnc = "break_command"    -> break_command(args)
      [] fnc = "help_command"     -> help_command(args)
      [] fnc = "version_command"  -> version_command(args)
      [] fnc = "mem_command"      -> mem_command(args)
      [] fnc = "get_command"      -> get_command(args)
      [] fnc = "set_temp_command" -> set_temp_command(args)
      [] fnc = "test_command"     -> test_command(args)

\* what a step leaves: what parse_command returned ("true", "false", or
\* "none" when it was not called), the handlers called, the parameters
\* they were called with, and the effect
Outcome(returned, handlers, params, eff) ==
    [ret |-> returned, invoked |-> handlers, passed |-> params, eff |-> eff]

RECURSIVE parse_from_past_sentinel(_, _, _)
parse_from_past_sentinel(p, cs, args) ==
    IF p > Len(commands_table) THEN {Outcome("false", <<>>, <<>>, Same)}
    ELSE IF cs = commands_table[p].command_cs
    THEN IF commands_table[p].pfunc = NULL
         THEN {Outcome("true", <<NULL>>, <<args>>, Same)}
         ELSE {Outcome("true", <<commands_table[p].pfunc>>, <<args>>, eff) :
                  eff \in CallHandler(commands_table[p].pfunc, args)}
    ELSE parse_from_past_sentinel(p + 1, cs, args)

\* the for loop of parse_command from table entry p on
RECURSIVE parse_from(_, _, _)
parse_from(p, cs, args) ==
    IF commands_table[p].pfunc = NULL THEN {Outcome("false", <<>>, <<>>, Same)}
    ELSE IF cs = commands_table[p].command_cs
    THEN {Outcome("true", <<commands_table[p].pfunc>>, <<args>>, eff) :
             eff \in CallHandler(commands_table[p].pfunc, args)}
    ELSE parse_from(p + 1, cs, args)

parse_command_past_sentinel(cs, args) == parse_from_past_sentinel(1, cs, args)

parse_command(cs, args) == parse_from(1, cs, args)

-----------------------------------------------------------------------------
(* The events delivered to the module. *)

Event(kind, text) == [kind |-> kind, text |-> text]

\* the console lines received
Lines ==
    {"ls", "ls /sd", "ls /nope", "ls ./a", "ls .", "ls sd", "ls /sd extra",
     "cd /a", "cd /nonexistent", "cd sd", "cd .", "cd .cfg", "cd", "cd /a extra",
     "cd /",
     "pwd",
     "cat /sd/F.G", "cat /sd/F.G 2", "cat /sd/F.G 0", "cat /sd/F.G 5 extra",
     "cat /sd/F.G x", "cat /sd/F.G -2", "cat /sd/NL 0", "cat /sd/LONG",
     "cat /sd/TAIL", "cat /a/WIDE 3", "cat WIDE", "cat nofile", "cat .cfg",
     "rm /sd/TAIL", "rm TAIL extra", "rm nofile",
     "reset", "dfu", "break", "help", "version", "mem", "mem -v",
     "get temp bed", "get pos", "get", "set_temp bed 185", "set_temp bed",
     "test", "foo", "", " ls", "reset\r\n",
     ";reset", "; a comment", ";"}

\* the structured commands received
Gcodes ==
    {[command |-> "M20",        has_m |-> TRUE,  m |-> 20],
     [command |-> "M30 TAIL",   has_m |-> TRUE,  m |-> 30],
     [command |-> "M30 no file", has_m |-> TRUE, m |-> 30],
     [command |-> "M105",       has_m |-> TRUE,  m |-> 105],
     [command |-> "G28",        has_m |-> FALSE, m |-> 0]}

IsReset(c) == c.op = "system_reset" /\ c.arg = "false"

\* the handles open once the calls cs have been made, in order, with the
\* handles of open open before them
RECURSIVE HandlesAfter(_, _)
HandlesAfter(cs, open) ==
    IF cs = <<>> THEN open
    ELSE IF Head(cs).op \in {"opendir", "fopen"} /\ Head(cs).ok
    THEN HandlesAfter(Tail(cs), open \cup {Head(cs).arg})
    ELSE IF Head(cs).op \in {"closedir", "fclose"}
    THEN HandlesAfter(Tail(cs), open \ {Head(cs).arg})
    ELSE HandlesAfter(Tail(cs), open)

Resets(cs) == Len(SelectSeq(cs, IsReset))

Rearms(o) == \E i \in 1..Len(o.invoked) : o.invoked[i] = "reset_command"

Capped(n) == IF n > MaxTicks THEN MaxTicks ELSE n

\* the step that delivers event e and ends as o says
Deliver(e, o) ==
    /\ event' = e
    /\ ret' = o.ret
    /\ invoked' = o.invoked
    /\ passed' = o.passed
    /\ current_path' = o.eff.cp
    /\ reset_delay_secs' = o.eff.rds
    /\ files' = o.eff.files
    /\ out' = o.eff.out
    /\ calls' = o.eff.calls
    /\ open_handles' = HandlesAfter(o.eff.calls, open_handles)
    /\ armed' = (armed \/ Rearms(o))
    /\ ticks_since' = IF Rearms(o) THEN 0
                      ELSE IF armed /\ e.kind = "tick" THEN Capped(ticks_since + 1)
                      ELSE ticks_since
    /\ fired_since' = IF Rearms(o) THEN 0
                      ELSE Capped(fired_since + Resets(o.eff.calls))
    /\ UNCHANGED <<dirs, heap, walk>>

on_module_loaded ==
    /\ current_path = "/"
    /\ reset_delay_secs = 0

on_second_tick_stuck ==
    IF reset_delay_secs > 1
    THEN [Same EXCEPT !.rds = reset_delay_secs - 1]
    ELSE Same

on_second_tick_every_tick ==
    IF reset_delay_secs > 0
    THEN [Same EXCEPT !.rds = reset_delay_secs - 1,
                      !.calls = <<Call("system_reset", "false", TRUE)>>]
    ELSE Same

\* what on_second_tick does
on_second_tick_effect ==
    IF reset_delay_secs > 0
    THEN IF reset_delay_secs - 1 = 0
         THEN [Same EXCEPT !.rds = reset_delay_secs - 1,
                           !.calls = <<Call("system_reset", "false", TRUE)>>]
         ELSE [Same EXCEPT !.rds = reset_delay_secs - 1]
    ELSE Same

on_second_tick ==
    \E o \in {Outcome("none", <<>>, <<>>, on_second_tick_effect)} :
        Deliver(Event("tick", ""), o)

on_gcode_received_lists_here(gcode) ==
    LET args == get_arguments(gcode.command)
    IN  IF gcode.has_m /\ gcode.m = 20
        THEN {Outcome("none", <<"ls_command">>, <<current_path>>,
                [eff EXCEPT
                   !.out = <<Printf("Begin file list\r\n", <<>>)>> \o @
                           \o <<Printf("End file list\r\n", <<>>)>>,
                   !.calls = <<Call("mark_as_taken", "", TRUE)>> \o @])
              : eff \in ls_command(current_path)}
        ELSE IF gcode.has_m /\ gcode.m = 30
        THEN {Outcome("none", <<"rm_command">>, <<"/sd/" \o args>>,
                [eff EXCEPT !.calls = <<Call("mark_as_taken", "", TRUE)>> \o @])
              : eff \in rm_command("/sd/" \o args)}
        ELSE {Outcome("none", <<>>, <<>>, Same)}

\* what on_gcode_received can do
on_gcode_received_outcomes(gcode) ==
    LET args == get_arguments(gcode.command)
    IN  IF gcode.has_m /\ gcode.m = 20
        THEN {Outcome("none", <<"ls_command">>, <<"/sd">>,
                [eff EXCEPT
                   !.out = <<Printf("Begin file list\r\n", <<>>)>> \o @
                           \o <<Printf("End file list\r\n", <<>>)>>,
                   !.calls = <<Call("mark_as_taken", "", TRUE)>> \o @])
              : eff \in ls_command("/sd")}
        ELSE IF gcode.has_m /\ gcode.m = 30
        THEN {Outcome("none", <<"rm_command">>, <<"/sd/" \o args>>,
                [eff EXCEPT !.calls = <<Call("mark_as_taken", "", TRUE)>> \o @])
              : eff \in rm_command("/sd/" \o args)}
        ELSE {Outcome("none", <<>>, <<>>, Same)}

on_gcode_received(gcode) ==
    \E o \in on_gcode_received_outcomes(gcode) :
        Deliver(Event("gcode", gcode.command), o)

on_console_line_received_no_comments(message) ==
    LET check_sum == get_checksum(UpToFirstOf(message, {" ", "\r", "\n"}))
    IN  parse_command(check_sum, get_arguments(message))

\* what on_console_line_received can do
on_console_line_received_outcomes(message) ==
    IF CharAt(message, 0) = ";" THEN {Outcome("none", <<>>, <<>>, Same)}
    ELSE LET possible_command == message
             check_sum == get_checksum(
                 UpToFirstOf(possible_command, {" ", "\r", "\n"}))
         IN  parse_command(check_sum, get_arguments(possible_command))

on_console_line_received(message) ==
    \E o \in on_console_line_received_outcomes(message) :
        Deliver(Event("line", message), o)

-----------------------------------------------------------------------------
(* The console: lines, structured commands and ticks in any order. *)

Init ==
    /\ on_module_loaded
    /\ dirs \in {Dirs, DirsNoCard}
    /\ files = FilesIn(dirs)
    /\ event = Event("load", "")
    /\ invoked = <<>>
    /\ passed = <<>>
    /\ ret = "none"
    /\ out = <<>>
    /\ calls = <<>>
    /\ open_handles = {}
    /\ armed = FALSE
    /\ ticks_since = 0
    /\ fired_since = 0
    /\ heap \in SampleHeaps
    /\ walk = WalkIdle

Next ==
    \/ \E message \in Lines : on_console_line_received(message)
    \/ \E gcode \in Gcodes : on_gcode_received(gcode)
    \/ on_second_tick

Spec == Init /\ [][Next]_vars

\* the periodic tick keeps arriving
FairSpec == Spec /\ WF_vars(on_second_tick)

-----------------------------------------------------------------------------
(* heapWalk alone, one pass of its loop per step, on every bounded heap. *)

HeapInit ==
    /\ on_module_loaded
    /\ dirs = Dirs
    /\ files = AllFiles
    /\ event = Event("load", "")
    /\ invoked = <<>>
    /\ passed = <<>>
    /\ ret = "none"
    /\ out = <<>>
    /\ calls = <<>>
    /\ open_handles = {}
    /\ armed = FALSE
    /\ ticks_since = 0
    /\ fired_since = 0
    /\ heap \in AllHeaps
    /\ \E verbose \in BOOLEAN : walk = walk_start(heap, verbose)

HeapWalkPass ==
    /\ walk.pc = "loop"
    /\ Lt32(walk.chunkCurr, walk.heapEnd)
    /\ Len(walk.visited) < MaxPasses
    /\ walk' = walk_iter(heap, walk)
    /\ UNCHANGED <<shell_vars, heap>>

HeapWalkReturn ==
    /\ walk.pc = "loop"
    /\ ~Lt32(walk.chunkCurr, walk.heapEnd)
    /\ walk' = walk_end(walk)
    /\ UNCHANGED <<shell_vars, heap>>

HeapNext == HeapWalkPass \/ HeapWalkReturn

HeapSpec == HeapInit /\ [][HeapNext]_vars

\* heapWalk runs to completion once called: nothing suspends it
HeapFairSpec == HeapSpec /\ WF_vars(HeapNext)

-----------------------------------------------------------------------------
(* Properties. *)

LineEvent == event.kind = "line"

\* the last step was handler fnc, called once from the command table
Dispatched(fnc) == LineEvent /\ invoked = <<fnc>>

\* the text of the flushes o, joined
RECURSIVE Joined(_)
Joined(o) == IF o = <<>> THEN "" ELSE o[1].args[1] \o Joined(Tail(o))

\* the first n newline-terminated lines of text, joined
RECURSIVE FirstLines(_, _)
FirstLines(text, n) ==
    IF n = 0 \/ Positions(text, {"\n"}) = {} THEN ""
    ELSE UpToFirstOf(text, {"\n"}) \o "\n"
         \o FirstLines(AfterFirstOf(text, {"\n"}), n - 1)

\* the limit token of a cat line
LimitToken(text) ==
    shift_parameter(shift_parameter(get_arguments(text)).rest).token

IsNatural(token) ==
    token # "" /\ \A i \in 1..Len(token) : IsDigit(SubSeq(token, i, i))

NaturalOf(token) == DigitRun(token, 1, 0).val

\* the last step was cat on a file it could open
CatOpened == Dispatched("cat_command") /\ calls[1].op = "fopen" /\ calls[1].ok

\* C1: once a reset command has been handled, system_reset(false) has been
\* called exactly once when five or more ticks have followed the last reset
\* command, and not at all when fewer than five have.
C1_ResetOnFifthTick ==
    armed => fired_since = (IF ticks_since >= 5 THEN 1 ELSE 0)

C1_Witness ==
    /\ armed
    /\ ticks_since = 6
    /\ fired_since = 1
    /\ event.kind = "tick"

\* C2: a cd whose opendir fails leaves current_path as it was and writes the
\* "Could not open directory" message; a pwd writes the path as it stands.
C2_CdAtomic ==
    [][ /\ (Dispatched("cd_command")' /\ ~calls'[1].ok) =>
              /\ current_path' = current_path
              /\ Len(out') = 1
              /\ out'[1].fmt = "Could not open directory %s \r\n"
        /\ Dispatched("pwd_command")' =>
              out' = <<Printf("%s\r\n", <<current_path>>)>> ]_vars

C2_Witness ==
    /\ event = Event("line", "cd /nonexistent")
    /\ current_path = "/a/"
    /\ out = <<Printf("Could not open directory %s \r\n", <<"/nonexistent/">>)>>

\* the table entries before the sentinel whose fingerprint is that of the
\* first token of the line
Matching(text) ==
    {p \in 1..(Len(commands_table) - 1) :
        commands_table[p].command_cs
            = get_checksum(UpToFirstOf(text, {" ", "\r", "\n"}))}

\* C3: a line that is no comment invokes the handler of the one table entry
\* whose fingerprint is that of its first token, once, and parse_command
\* returns true; when no entry has that fingerprint (0 included), no handler
\* is invoked, nothing is written and parse_command returns false.
C3_Dispatch ==
    (LineEvent /\ CharAt(event.text, 0) # ";") =>
        IF Matching(event.text) # {}
        THEN /\ Cardinality(Matching(event.text)) = 1
             /\ \A p \in Matching(event.text) :
                    invoked = <<commands_table[p].pfunc>>
             /\ ret = "true"
        ELSE /\ invoked = <<>>
             /\ out = <<>>
             /\ calls = <<>>
             /\ ret = "false"

C3_Witness ==
    /\ event = Event("line", "")
    /\ get_checksum("") = 0
    /\ ret = "false"
    /\ invoked = <<>>

\* C4: cat with a limit that is a non-negative integer L writes the first
\* min(L, number of newline-terminated lines) lines of the file and nothing
\* after them.
C4_CatLimit ==
    (CatOpened /\ IsNatural(LimitToken(event.text))) =>
        Joined(out) = FirstLines(ContentOf(calls[1].arg),
                                 NaturalOf(LimitToken(event.text)))

\* C5: every flush of cat carries at most 80 bytes, and a file that is one
\* run of bytes with no newline is written in full, the bytes buffered at
\* end of file included.
C5_CatLongLine ==
    CatOpened =>
        /\ \A i \in 1..Len(out) : Len(out[i].args[1]) <= 80
        /\ (Positions(ContentOf(calls[1].arg), {"\n"}) = {}
              /\ LimitToken(event.text) = "")
             => Joined(out) = ContentOf(calls[1].arg)

WellFormedHeap(h) ==
    /\ \A i \in 1..Len(h.chunks) : h.chunks[i].size >= 8
    /\ h.order = "ascending"

\* the sum of (raw size - 8) over the chunks the walk visited, in 32 bits
RECURSIVE SumReported(_)
SumReported(visited) ==
    IF visited = <<>> THEN U32(0)
    ELSE Add32(Sub32(visited[1].raw, U32(8)), SumReported(Tail(visited)))

\* C6: on a well-formed heap, when heapWalk returns, usedSize + freeSize is
\* the sum of (raw size - 8) over the chunks visited, and heapEnd - heapStart
\* is usedSize + freeSize + 8 per chunk, so at least usedSize.
C6_HeapTotals ==
    (walk.pc = "done" /\ WellFormedHeap(heap)) =>
        /\ Len(walk.visited) = Len(heap.chunks)
        /\ Add32(walk.usedSize, walk.freeSize) = SumReported(walk.visited)
        /\ walk.top = Add32(Add32(walk.usedSize, walk.freeSize),
                            U32(8 * Len(walk.visited)))
        /\ ~Lt32(walk.top, walk.usedSize)

C6_Witness ==
    /\ walk.pc = "done"
    /\ WellFormedHeap(heap)
    /\ Len(heap.chunks) >= 3
    /\ walk.freeSize # U32(0)
    /\ walk.usedSize # U32(0)

\* the path fopen or opendir was given by the last step
PathUsed == calls[1].arg

\* the token ls (all of its parameters) or cat (the first of them) resolves
TokenResolved ==
    IF invoked = <<"ls_command">> THEN get_arguments(event.text)
    ELSE shift_parameter(get_arguments(event.text)).token

Resolving == Dispatched("ls_command") \/ Dispatched("cat_command")

\* C7 as stated: the token itself when it begins with '/', the current path
\* when it is ".", and the current path followed by the token otherwise
\* (".cfg" and "./a" included).
C7_ResolveDotTokenOnly ==
    Resolving =>
        PathUsed = IF CharAt(TokenResolved, 0) = "/" THEN TokenResolved
                   ELSE IF TokenResolved = "." THEN current_path
                   ELSE current_path \o TokenResolved

\* C7, amended: the token itself when it begins with '/', the current path
\* whenever it begins with '.', and the current path followed by the token
\* otherwise (the empty token yields the current path).
C7_ResolveFirstCharacter ==
    Resolving =>
        PathUsed = IF TokenResolved # "" /\ SubSeq(TokenResolved, 1, 1) = "/"
                   THEN TokenResolved
                   ELSE IF TokenResolved # "" /\ SubSeq(TokenResolved, 1, 1) = "."
                   THEN current_path
                   ELSE current_path \o TokenResolved

C7_Witness ==
    /\ event = Event("line", "ls ./a")
    /\ current_path = "/sd/"
    /\ calls = <<Call("opendir", "/sd/", TRUE), Call("closedir", "/sd/", TRUE)>>

\* the last step called system_reset(false)
DeviceReset == Resets(calls) > 0

\* C8 as stated: with ticks arriving for ever, an armed countdown always
\* leads to the device reset, whatever else is received.
C8_ArmedLeadsToReset == (reset_delay_secs > 0) ~> DeviceReset

\* C8, amended: with ticks arriving for ever, an armed countdown leads to
\* the device reset unless reset commands keep being handled for ever.
C8_ArmedLeadsToResetUnlessRearmed ==
    <>[][invoked' # <<"reset_command">>]_vars
        => ((reset_delay_secs > 0) ~> DeviceReset)

C8_Witness ==
    /\ DeviceReset
    /\ event.kind = "tick"
    /\ reset_delay_secs = 0
    /\ current_path = "/a/"

\* C9: cat with no limit, or with one that is no non-negative integer,
\* writes the whole file.
C9_CatWholeFile ==
    (CatOpened /\ ~IsNatural(LimitToken(event.text))
               /\ ~IsDigit(CharAt(LimitToken(event.text), 0))) =>
        Joined(out) = ContentOf(calls[1].arg)

\* C10: a line that begins with ';' returns before parse_command is called:
\* no handler is invoked, nothing is written, no collaborator is called and
\* the current path, the countdown and the storage are as they were.
C10_CommentsIgnored ==
    [][ (LineEvent' /\ CharAt(event'.text, 0) = ";") =>
            /\ ret' = "none"
            /\ invoked' = <<>>
            /\ out' = <<>>
            /\ calls' = <<>>
            /\ current_path' = current_path
            /\ reset_delay_secs' = reset_delay_secs
            /\ files' = files ]_vars

C10_Witness ==
    /\ event = Event("line", ";reset")
    /\ invoked = <<>>
    /\ ~armed
    /\ reset_delay_secs = 0
    /\ current_path = "/a/"

\* the M code of a structured command, -1 when it has none
McodeOf(text) ==
    IF CharAt(text, 0) = "M"
    THEN strtol(SubSeq(UpToFirstOf(text, {" "}), 2,
                       Len(UpToFirstOf(text, {" "})))).val
    ELSE 0 - 1

\* how many of the writes o have the format fmt
Writes(o, fmt) == Cardinality({i \in 1..Len(o) : o[i].fmt = fmt})

\* what listing /sd writes on the storage as it stands
ListingOfSd ==
    IF "/sd" \in dirs
    THEN [i \in 1..Len(readdir("/sd")) |-> Printf("%s\r\n", <<lc(readdir("/sd")[i])>>)]
    ELSE <<Printf("Could not open directory %s \r\n", <<"/sd">>)>>

\* C11: M20 writes "Begin file list" first and "End file list" last, once
\* each, around what ls_command writes for "/sd" whatever the current path
\* is and whether or not /sd opens; M30 calls rm_command on "/sd/" followed
\* by the payload and writes no sentinel; any other structured command
\* calls no handler and no collaborator and writes nothing.
C11_GcodeFraming ==
    [][ event'.kind = "gcode" =>
          CASE McodeOf(event'.text) = 20 ->
                 /\ invoked' = <<"ls_command">>
                 /\ passed' = <<"/sd">>
                 /\ Len(out') >= 2
                 /\ out'[1] = Printf("Begin file list\r\n", <<>>)
                 /\ out'[Len(out')] = Printf("End file list\r\n", <<>>)
                 /\ Writes(out', "Begin file list\r\n") = 1
                 /\ Writes(out', "End file list\r\n") = 1
                 /\ SubSeq(out', 2, Len(out') - 1) = ListingOfSd
                 /\ calls'[2] = Call("opendir", "/sd", "/sd" \in dirs)
                 /\ files' = files
            [] McodeOf(event'.text) = 30 ->
                 /\ invoked' = <<"rm_command">>
                 /\ passed' = <<"/sd/" \o get_arguments(event'.text)>>
                 /\ Writes(out', "Begin file list\r\n") = 0
                 /\ Writes(out', "End file list\r\n") = 0
                 /\ calls'[2].op = "remove"
            [] OTHER ->
                 /\ invoked' = <<>>
                 /\ calls' = <<>>
                 /\ out' = <<>>
                 /\ files' = files ]_vars

C11_Witness ==
    /\ event = Event("gcode", "M20")
    /\ current_path = "/a/"
    /\ passed = <<"/sd">>
    /\ out = <<Printf("Begin file list\r\n", <<>>),
               Printf("%s\r\n", <<"f.g">>),
               Printf("%s\r\n", <<"long">>),
               Printf("%s\r\n", <<"nl">>),
               Printf("End file list\r\n", <<>>)>>

\* C12: in every reachable state current_path is non-empty, begins with '/'
\* and ends with '/'.
C12_PathInvariant ==
    /\ current_path # ""
    /\ SubSeq(current_path, 1, 1) = "/"
    /\ SubSeq(current_path, Len(current_path), Len(current_path)) = "/"

C12_Witness ==
    /\ event = Event("line", "cd sd")
    /\ calls = <<Call("opendir", "/sd/", TRUE), Call("closedir", "/sd/", TRUE)>>
    /\ current_path = "/sd/"

\* the calls of cs that yielded a handle, and those that gave one back
Opened(cs) == {i \in 1..Len(cs) : cs[i].op \in {"opendir", "fopen"} /\ cs[i].ok}

Closed(cs) == {i \in 1..Len(cs) : cs[i].op \in {"closedir", "fclose"}}

Closes(open, close) ==
    (open = "opendir" /\ close = "closedir") \/ (open = "fopen" /\ close = "fclose")

\* C13: every handle a step opened is closed exactly once later in the same
\* step, nothing else is closed (a failed open is not), and no handle is
\* open once the step has returned.
C13_NoHandleLeaks ==
    /\ \A i \in Opened(calls) :
           Cardinality({j \in Closed(calls) :
                           /\ j > i
                           /\ calls[j].arg = calls[i].arg
                           /\ Closes(calls[i].op, calls[j].op)}) = 1
    /\ Cardinality(Closed(calls)) = Cardinality(Opened(calls))
    /\ open_handles = {}

C13_Witness ==
    /\ event = Event("line", "cat /sd/F.G 2")
    /\ Len(out) = 2
    /\ calls = <<Call("fopen", "/sd/F.G", TRUE), Call("fclose", "/sd/F.G", TRUE)>>
    /\ open_handles = {}

PositiveHeaders(h) == \A i \in 1..Len(h.chunks) : h.chunks[i].size > 0

\* the sum of (raw size - 8) over the chunks visited that were found free
\* (free = TRUE) or in use (free = FALSE), in 32 bits
RECURSIVE SumReportedOf(_, _)
SumReportedOf(visited, free) ==
    IF visited = <<>> THEN U32(0)
    ELSE IF visited[1].free = free
    THEN Add32(Sub32(visited[1].raw, U32(8)), SumReportedOf(Tail(visited), free))
    ELSE SumReportedOf(Tail(visited), free)

\* C14: on a heap whose headers are positive and whose free list is in
\* ascending address order, the chunks heapWalk has visited are the first
\* chunks of the heap, once each and in address order, each at the address
\* of the one before plus its raw size; a chunk is found free exactly when
\* it is on the free list; the free-list cursor is at the first free chunk
\* not yet visited (0 when there is none); freeSize and usedSize are the
\* sums of (raw size - 8) over the free and the other chunks visited; and
\* at return every chunk has been visited.
C14_LockStepMerge ==
    (PositiveHeaders(heap) /\ heap.order = "ascending") =>
        /\ Len(walk.visited) <= Len(heap.chunks)
        /\ \A i \in 1..Len(walk.visited) :
               /\ walk.visited[i].addr = U32(ChunkAddr(heap, i))
               /\ walk.visited[i].raw = U32(heap.chunks[i].size)
               /\ walk.visited[i].free = heap.chunks[i].free
               /\ i > 1 => walk.visited[i].addr
                              = Add32(walk.visited[i - 1].addr, walk.visited[i - 1].raw)
        /\ walk.freeCurr = U32(NextFree(heap, Len(walk.visited)))
        /\ walk.freeSize = SumReportedOf(walk.visited, TRUE)
        /\ walk.usedSize = SumReportedOf(walk.visited, FALSE)
        /\ walk.pc = "done" => Len(walk.visited) = Len(heap.chunks)

C14_Witness ==
    /\ walk.pc = "done"
    /\ heap.order = "ascending"
    /\ Len(heap.chunks) = 3
    /\ heap.chunks[1] = Chunk(8, TRUE)
    /\ heap.chunks[2] = Chunk(4, FALSE)
    /\ heap.chunks[3] = Chunk(16, TRUE)
    /\ walk.freeSize = U32(8)
    /\ walk.freeCurr = U32(0)

\* the walk has returned
WalkDone == walk.pc = "done"

\* C15: heapWalk returns when the chunk cursor is at or past the heap end
\* read before the loop and every chunk it visited was before it, and it
\* does not return before; on a heap whose headers are all positive it
\* returns after finitely many passes; a pass over a header of 0 leaves the
\* cursor where it was.
C15_WalkTerminates ==
    /\ [](walk.heapEnd = U32(sbrk0(heap)))
    /\ [](WalkDone =>
            /\ ~Lt32(walk.chunkCurr, walk.heapEnd)
            /\ \A i \in 1..Len(walk.visited) :
                   Lt32(walk.visited[i].addr, walk.heapEnd))
    /\ [][(WalkDone' /\ ~WalkDone) => ~Lt32(walk.chunkCurr, walk.heapEnd)]_vars
    /\ [][(walk.pc' = "loop" /\ walk' # walk
             /\ Word(heap, walk.chunkCurr) = U32(0))
            => walk.chunkCurr' = walk.chunkCurr]_vars
    /\ (PositiveHeaders(heap) => <>WalkDone)

C15_Witness ==
    /\ WalkDone
    /\ PositiveHeaders(heap)
    /\ Len(heap.chunks) = 3
    /\ Len(walk.visited) = 3
    /\ walk.chunkCurr = walk.heapEnd

\* the calls of system_reset the last step made
Restarts == SelectSeq(calls, LAMBDA c : c.op = "system_reset")

\* C16: a tick with the countdown at 0 changes neither the session nor the
\* storage and calls nothing; a tick with it above 1 only takes 1 off; a
\* tick with it at 1 sets it to 0 and calls system_reset(false).  The
\* countdown is within 0..5 in every state, system_reset(false) is called
\* only by a tick after a reset command was handled, and system_reset(true)
\* only by the dfu command.
C16_ResetOnLastTickOnly ==
    /\ [](reset_delay_secs \in 0..5)
    /\ [](\A i \in 1..Len(Restarts) :
             IF Restarts[i].arg = "false"
             THEN event.kind = "tick" /\ armed
             ELSE invoked = <<"dfu_command">>)
    /\ [][ event'.kind = "tick" =>
             /\ current_path' = current_path
             /\ files' = files
             /\ out' = <<>>
             /\ CASE reset_delay_secs = 0 ->
                       reset_delay_secs' = 0 /\ calls' = <<>>
                  [] reset_delay_secs = 1 ->
                       /\ reset_delay_secs' = 0
                       /\ calls' = <<Call("system_reset", "false", TRUE)>>
                  [] OTHER ->
                       reset_delay_secs' = reset_delay_secs - 1 /\ calls' = <<>> ]_vars

C16_Witness ==
    /\ event.kind = "tick"
    /\ armed
    /\ ticks_since = 5
    /\ reset_delay_secs = 0
    /\ calls = <<Call("system_reset", "false", TRUE)>>

\* C17: a step changes current_path only when it is a console line that
\* called cd_command and its opendir succeeded; a step changes
\* reset_delay_secs only when it is a tick or a console line that called
\* reset_command.  Every other line, every structured command and (for the
\* path) every tick leaves them as they were.
C17_SessionFrame ==
    [][ /\ current_path' # current_path =>
              /\ Dispatched("cd_command")'
              /\ calls'[1] = Call("opendir", current_path', TRUE)
        /\ reset_delay_secs' # reset_delay_secs =>
              \/ event'.kind = "tick"
              \/ Dispatched("reset_command")' ]_vars

C17_Witness ==
    /\ event = Event("gcode", "M30 TAIL")
    /\ files = AllFiles \ {"/sd/TAIL"}
    /\ calls[2] = Call("remove", "/sd/TAIL", TRUE)
    /\ current_path = "/a/"
    /\ reset_delay_secs = 3

\* the path the first token of the parameters of line text resolves to,
\* against the current path
FirstTokenResolved(text) ==
    LET token == UpToFirstOf(get_arguments(text), {" "})
    IN  IF token # "" /\ SubSeq(token, 1, 1) = "/" THEN token
        ELSE IF token # "" /\ SubSeq(token, 1, 1) = "." THEN current_path
        ELSE current_path \o token

WithSeparator(path) ==
    IF path # "" /\ SubSeq(path, Len(path), Len(path)) = "/" THEN path
    ELSE path \o "/"

\* C18: ls, cd, rm and cat give the filesystem the path their first token
\* resolves to (cd with the separator appended), whatever tokens follow it.
C18_ExtraTokensIgnored ==
    [][ /\ (Dispatched("ls_command")' \/ Dispatched("cat_command")') =>
              calls'[1].arg = FirstTokenResolved(event'.text)
        /\ Dispatched("cd_command")' =>
              calls'[1].arg = WithSeparator(FirstTokenResolved(event'.text))
        /\ Dispatched("rm_command")' =>
              calls'[1].arg \in {FirstTokenResolved(event'.text), freed_buffer} ]_vars

====
